---- MODULE Spec2Model ----
(***************************************************************************)
(* FindIt lost-and-found application: the relational store (users, lost    *)
(* and found reports, notifications), the request handlers of views.py    *)
(* and the item-report forms of forms.py.                                  *)
(***************************************************************************)
EXTENDS Integers, Sequences, FiniteSets, TLC

VARIABLES users, lostItems, foundItems, notifications, now, claimLog, response,
          inflight

vars == <<users, lostItems, foundItems, notifications, now, claimLog, response, inflight>>

(***************************************************************************)
(* Bounds of the model.                                                    *)
(***************************************************************************)
NumUsers == 2
MaxLost == 1
MaxFound == 1
MaxNotifications == 2
MaxNow == 8
MaxRequests == 2

UserIds == 1..NumUsers
InitialUsernames == <<"ann", "bob", "cat", "dan">>
AnonymousUser == 0
ItemIds == 1..(MaxLost + 1)
Descriptions == {"wallet", "keys"}
FoundDescriptions == {"watch"}
NoImage == [present |-> FALSE, size |-> 0, content_type |-> ""]

\* forms.py : timedelta(days=7), the window of the duplicate check.
DuplicateWindowDays == 7

(***************************************************************************)
(* Text helpers (Python str methods used by the forms and the views).      *)
(***************************************************************************)
Last(s) == SubSeq(s, Len(s), Len(s))

RECURSIVE lstrip(_)
lstrip(s) == IF s # "" /\ Head(s) = " " THEN lstrip(Tail(s)) ELSE s

RECURSIVE rstrip(_)
rstrip(s) == IF s # "" /\ Last(s) = " " THEN rstrip(SubSeq(s, 1, Len(s) - 1)) ELSE s

strip(s) == rstrip(lstrip(s))

\* s * n : the string repeated n times.
RECURSIVE Repeat(_, _)
Repeat(s, n) ==
    IF n = 0 THEN ""
    ELSE IF n % 2 = 1 THEN s \o Repeat(s, n - 1)
    ELSE Repeat(s \o s, n \div 2)

(***************************************************************************)
(* models.py : the tables.  A table is the sequence of its rows, the       *)
(* primary key of a row being its position (ids are generated in order and *)
(* no handler deletes a report or a notification).                         *)
(***************************************************************************)
LostItemFields == {"id", "user", "description", "color", "brand",
                   "distinctive_features", "time_created",
                   "last_known_location", "image"}

FoundItemFields == {"id", "user", "description", "color", "brand",
                    "distinctive_features", "time_created",
                    "last_known_location", "image"}

ItemRow(user, description, color, brand, location, image) ==
    [user |-> user, description |-> description, color |-> color,
     brand |-> brand, distinctive_features |-> "", time_created |-> now,
     last_known_location |-> location, image |-> image]

NotificationRow(to_user, from_user, message) ==
    [to_user |-> to_user, from_user |-> from_user, message |-> message,
     time_created |-> now, is_read |-> FALSE]

ProtectedUsers_notifications ==
    {notifications[i].to_user : i \in DOMAIN notifications}
    \cup {notifications[i].from_user : i \in DOMAIN notifications}

\* Users referenced by a PROTECT foreign key of some row.
ProtectedUsers ==
    {lostItems[i].user : i \in DOMAIN lostItems}
    \cup {foundItems[i].user : i \in DOMAIN foundItems}
    \cup {notifications[i].to_user : i \in DOMAIN notifications}
    \cup {notifications[i].from_user : i \in DOMAIN notifications}

IsProtected(u) == u \in ProtectedUsers

(***************************************************************************)
(* forms.py : BaseItemForm, the declared fields and their cleaning.        *)
(***************************************************************************)
FormFields == <<"item_name", "color", "item_type", "brand", "description",
                "location", "contact_name", "contact_email", "contact_phone",
                "image">>

TextFields == {FormFields[i] : i \in 1..9}

\* max_length 0 stands for a field declared without max_length.
declared_fields ==
    [item_name     |-> [kind |-> "char",   required |-> TRUE,  max_length |-> 200],
     color         |-> [kind |-> "char",   required |-> TRUE,  max_length |-> 50],
     item_type     |-> [kind |-> "choice", required |-> TRUE,  max_length |-> 0],
     brand         |-> [kind |-> "char",   required |-> FALSE, max_length |-> 100],
     description   |-> [kind |-> "char",   required |-> TRUE,  max_length |-> 0],
     location      |-> [kind |-> "char",   required |-> TRUE,  max_length |-> 300],
     contact_name  |-> [kind |-> "char",   required |-> TRUE,  max_length |-> 100],
     contact_email |-> [kind |-> "email",  required |-> TRUE,  max_length |-> 0],
     contact_phone |-> [kind |-> "phone",  required |-> TRUE,  max_length |-> 15],
     image         |-> [kind |-> "image",  required |-> FALSE, max_length |-> 0]]

item_type_choices == {"electronics", "clothing", "accessories", "documents",
                      "bags", "jewelry", "keys", "wallet", "phone", "laptop",
                      "books", "sports", "pet", "other"}

Digits == {"0", "1", "2", "3", "4", "5", "6", "7", "8", "9"}

RECURSIVE AllIn(_, _)
AllIn(s, chars) == s = "" \/ (Head(s) \in chars /\ AllIn(Tail(s), chars))

\* phone_regex : ^\+?1?\d{9,15}$ ; the part after the optional "+".
phone_regex_digits(a) ==
    \/ Len(a) >= 9 /\ Len(a) <= 15 /\ AllIn(a, Digits)
    \/ a # "" /\ Head(a) = "1" /\ Len(a) >= 10 /\ Len(a) <= 16 /\ AllIn(a, Digits)

phone_regex(s) ==
    phone_regex_digits(IF s # "" /\ Head(s) = "+" THEN Tail(s) ELSE s)

Upper == <<"A", "B", "C", "D", "E", "F", "G", "H", "I", "J", "K", "L", "M",
           "N", "O", "P", "Q", "R", "S", "T", "U", "V", "W", "X", "Y", "Z">>
Lower == <<"a", "b", "c", "d", "e", "f", "g", "h", "i", "j", "k", "l", "m",
           "n", "o", "p", "q", "r", "s", "t", "u", "v", "w", "x", "y", "z">>

lowerChar(c) ==
    IF \E i \in 1..26 : Upper[i] = c
    THEN Lower[CHOOSE i \in 1..26 : Upper[i] = c]
    ELSE c

RECURSIVE lower(_)
lower(s) == IF s = "" THEN "" ELSE lowerChar(Head(s)) \o lower(Tail(s))

RECURSIVE Count(_, _)
Count(s, c) == IF s = "" THEN 0 ELSE (IF Head(s) = c THEN 1 ELSE 0) + Count(Tail(s), c)

IndexOf(s, c) == CHOOSE i \in 1..Len(s) : SubSeq(s, i, i) = c /\ Count(SubSeq(s, 1, i - 1), c) = 0

\* EmailField : one "@", a non-empty local part, a dotted domain, no blanks.
EmailChars == {Lower[i] : i \in 1..26} \cup {Upper[i] : i \in 1..26} \cup Digits
              \cup {".", "-", "_", "+"}

validate_email_parts(local, domain) ==
    /\ local # "" /\ AllIn(local, EmailChars)
    /\ Head(local) # "." /\ Last(local) # "."
    /\ domain # "" /\ AllIn(domain, EmailChars \ {"_", "+"})
    /\ Count(domain, ".") >= 1
    /\ Head(domain) \notin {".", "-"} /\ Last(domain) \notin {".", "-"}
    /\ \A i \in 1..(Len(domain) - 1) : SubSeq(domain, i, i + 1) # ".."

validate_email_at(s, at) ==
    validate_email_parts(SubSeq(s, 1, at - 1), SubSeq(s, at + 1, Len(s)))

validate_email(s) ==
    Count(s, "@") = 1 /\ validate_email_at(s, IndexOf(s, "@"))

Ok(v) == [ok |-> TRUE, value |-> v, code |-> ""]
Err(c) == [ok |-> FALSE, value |-> "", code |-> c]

\* Field.clean of the declared field: to_python (strip), required, validators.
run_validators(f, v) ==
    IF v = "" THEN (IF f.required THEN Err("required") ELSE Ok(""))
    ELSE IF f.max_length > 0 /\ Len(v) > f.max_length THEN Err("max_length")
    ELSE IF f.kind = "choice" /\ v \notin item_type_choices THEN Err("invalid_choice")
    ELSE IF f.kind = "email" /\ ~validate_email(v) THEN Err("invalid")
    ELSE IF f.kind = "phone" /\ ~phone_regex(v) THEN Err("invalid")
    ELSE Ok(v)

field_clean(name, raw) == run_validators(declared_fields[name], strip(raw))

\* The length tests of the clean_<name> methods, on the stripped value.
length_between(v, min, max) ==
    IF Len(v) < min THEN Err("min_length")
    ELSE IF max > 0 /\ Len(v) > max THEN Err("max_length")
    ELSE Ok(v)

clean_item_name(item_name) ==
    IF item_name # "" THEN length_between(strip(item_name), 3, 0) ELSE Ok(item_name)

clean_description(description) ==
    IF description # "" THEN length_between(strip(description), 10, 1000)
    ELSE Ok(description)

clean_contact_email(email) ==
    IF email # "" THEN Ok(strip(lower(email))) ELSE Ok(email)

RECURSIVE remove(_, _)
remove(s, c) ==
    IF s = "" THEN ""
    ELSE (IF Head(s) = c THEN "" ELSE Head(s)) \o remove(Tail(s), c)

clean_contact_phone(phone) ==
    IF phone # "" THEN Ok(remove(remove(phone, " "), "-")) ELSE Ok(phone)

clean_location(location) ==
    IF location # "" THEN length_between(strip(location), 3, 0) ELSE Ok(location)

MaxImageBytes == 5 * 1024 * 1024
valid_types == {"image/jpeg", "image/jpg", "image/png", "image/gif"}

clean_image(image) ==
    IF image.present
    THEN (IF image.size > MaxImageBytes THEN Err("too_large")
          ELSE IF image.content_type \notin valid_types THEN Err("bad_type")
          ELSE Ok(image))
    ELSE Ok(image)

\* getattr(self, "clean_<name>") : the form's method for the field, applied
\* to the value Field.clean returned.
clean_method(name, r) ==
    IF ~r.ok THEN r
    ELSE CASE name = "item_name"     -> clean_item_name(r.value)
           [] name = "description"   -> clean_description(r.value)
           [] name = "contact_email" -> clean_contact_email(r.value)
           [] name = "contact_phone" -> clean_contact_phone(r.value)
           [] name = "location"      -> clean_location(r.value)
           [] OTHER                  -> r

\* One field of _clean_fields: Field.clean, then the form's clean_<name>.
clean_field(name, raw) ==
    IF name = "image" THEN clean_image(raw)
    ELSE clean_method(name, field_clean(name, raw))

FieldNames == {FormFields[i] : i \in DOMAIN FormFields}

\* The cleaned data (fields that passed) and the field errors, from the
\* result of each field.
collect_fields(results) ==
    [cleaned_data |-> [n \in {m \in FieldNames : results[m].ok} |-> results[n].value],
     errors |-> {<<n, results[n].code>> : n \in {m \in FieldNames : ~results[m].ok}}]

\* _clean_fields : every declared field, in turn.
clean_fields(data) ==
    collect_fields([n \in FieldNames |-> clean_field(n, data[n])])

\* cleaned_data.get(name) : None and "" are both falsy.
Truthy(cleaned_data, name) == name \in DOMAIN cleaned_data /\ cleaned_data[name] # ""

(***************************************************************************)
(* Submitted form data.                                                    *)
(***************************************************************************)
valid_data ==
    [item_name |-> "Blue Backpack", color |-> "Blue", item_type |-> "bags",
     brand |-> "Nike",
     description |-> "A blue Nike backpack with laptop compartment and water bottle holder",
     location |-> "Central Park, near the fountain",
     contact_name |-> "John Doe", contact_email |-> "john.doe@example.com",
     contact_phone |-> "+1234567890", image |-> NoImage]

\* The values the tests give to one field, the others being those of
\* valid_data.
ItemNameInputs == {"AB", " AB ", "ABC", "  ABC  ", "Wallet"}

DescriptionInputs ==
    {"Too short", "Ten chars.", "  Too short  ", Repeat("A", 1001), Repeat("D", 1000),
     " " \o Repeat("D", 1000) \o " "}

LocationInputs == {"AB", " A ", "Gym"}

EmailInputs == {"invalid-email", "  JOHN.DOE@EXAMPLE.COM  ", "JOHN.DOE@EXAMPLE.COM",
                "test@example.com"}

PhoneInputs ==
    {"+1234567890", "+12345678901", "1234567890", "+123456789012345",
     "123", "abcdefghij", "++1234567890", "+1 234-567-890", "123456789",
     "12345678", "123456789012345", "1234567890123456", "+12345678"}

ImageInputs ==
    {[present |-> TRUE, size |-> sz, content_type |-> ct] :
        sz \in {4 * 1024 * 1024, MaxImageBytes, MaxImageBytes + 1},
        ct \in {"image/jpeg", "image/png", "image/gif", "image/bmp"}}

FormInputs ==
    {valid_data}
    \cup {[valid_data EXCEPT ![n] = ""] : n \in TextFields}
    \cup {[valid_data EXCEPT !.item_name = v] : v \in ItemNameInputs}
    \cup {[valid_data EXCEPT !.description = v] : v \in DescriptionInputs}
    \cup {[valid_data EXCEPT !.location = v] : v \in LocationInputs}
    \cup {[valid_data EXCEPT !.contact_email = v] : v \in EmailInputs}
    \cup {[valid_data EXCEPT !.contact_phone = v] : v \in PhoneInputs}
    \cup {[valid_data EXCEPT !.image = v] : v \in ImageInputs}
    \cup {[valid_data EXCEPT !.item_name = "Wallet", !.color = "black", !.location = " library "],
          [valid_data EXCEPT !.contact_email = "", !.contact_phone = ""],
          [valid_data EXCEPT !.contact_email = "invalid-email", !.contact_phone = "123"],
          [valid_data EXCEPT !.item_name = "", !.contact_email = "", !.contact_phone = ""],
          [item_name |-> Repeat("A", 200), color |-> Repeat("B", 50),
           item_type |-> "other", brand |-> Repeat("C", 100),
           description |-> Repeat("D", 1000), location |-> Repeat("E", 300),
           contact_name |-> Repeat("F", 100), contact_email |-> "test@example.com",
           contact_phone |-> "+123456789012345", image |-> NoImage]}

\* The inputs submitted to the two handlers.
SubmitInputs ==
    {valid_data,
     [valid_data EXCEPT !.item_name = "Wallet", !.color = "black", !.location = " library "],
     [valid_data EXCEPT !.item_name = "AB"],
     [valid_data EXCEPT !.item_name = "", !.contact_email = "", !.contact_phone = ""]}

\* _clean_fields of each submitted input (it reads nothing but the input).
cleaned_inputs == [data \in FormInputs |-> clean_fields(data)]

(***************************************************************************)
(* The ORM queries of the forms: a lookup names a field of the model; a    *)
(* keyword that is not a field of the model raises FieldError when the     *)
(* query is built.                                                         *)
(***************************************************************************)
icontains(h, n) ==
    \E i \in 1..(Len(h) - Len(n) + 1) : lower(SubSeq(h, i, i + Len(n) - 1)) = lower(n)

Matches(row, l) ==
    CASE l.lookup = "icontains" -> icontains(row[l.field], l.value)
      [] l.lookup = "iexact"    -> lower(row[l.field]) = lower(l.value)
      [] l.lookup = "gte"       -> row[l.field] >= l.value
      [] OTHER                  -> row[l.field] = l.value

QuerySet_filter(table, modelFields, lookups) ==
    IF \E k \in DOMAIN lookups : lookups[k].field \notin modelFields
    THEN [raised |-> TRUE, rows |-> {}]
    ELSE [raised |-> FALSE,
          rows |-> {i \in DOMAIN table :
                      \A k \in DOMAIN lookups : Matches(table[i], lookups[k])}]

(***************************************************************************)
(* forms.py : the form-level clean() of the three classes.                 *)
(***************************************************************************)
NonFieldErrors == "__all__"

BaseItemForm_clean_either(cleaned_data) ==
    ~Truthy(cleaned_data, "contact_email") \/ ~Truthy(cleaned_data, "contact_phone")

\* BaseItemForm.clean : TRUE when it raises the contact-method ValidationError.
BaseItemForm_clean(cleaned_data) ==
    ~Truthy(cleaned_data, "contact_email") /\ ~Truthy(cleaned_data, "contact_phone")

CleanResult(outcome, errors) == [outcome |-> outcome, errors |-> errors]

\* The use clean() makes of its query: building it raises FieldError on an
\* unknown field; .exists() on a non-empty result adds the given errors
\* (FoundItemForm.clean only counts the result, and adds none).
exists_error(queryset, errors) ==
    IF queryset.raised THEN CleanResult("FieldError", {})
    ELSE IF queryset.rows # {} THEN CleanResult("ok", errors)
    ELSE CleanResult("ok", {})

LostItemForm_clean(cleaned_data, lost, today) ==
    IF BaseItemForm_clean(cleaned_data)
    THEN CleanResult("ok", {<<NonFieldErrors, "contact_method_required">>})
    ELSE IF Truthy(cleaned_data, "item_name") /\ Truthy(cleaned_data, "location")
    THEN exists_error(
             QuerySet_filter(lost, LostItemFields,
                 <<[field |-> "item_name", lookup |-> "icontains",
                   value |-> cleaned_data["item_name"]],
                  [field |-> "location", lookup |-> "icontains",
                   value |-> cleaned_data["location"]],
                  [field |-> "date_reported", lookup |-> "gte",
                   value |-> today - DuplicateWindowDays]>>),
             {<<NonFieldErrors, "duplicate_warning">>})
    ELSE CleanResult("ok", {})

FoundItemForm_clean_blocking(cleaned_data, lost) ==
    IF BaseItemForm_clean(cleaned_data)
    THEN CleanResult("ok", {<<NonFieldErrors, "contact_method_required">>})
    ELSE IF Truthy(cleaned_data, "item_name") /\ Truthy(cleaned_data, "color")
    THEN exists_error(
             QuerySet_filter(lost, LostItemFields,
                 <<[field |-> "description", lookup |-> "icontains",
                    value |-> cleaned_data["item_name"]],
                   [field |-> "color", lookup |-> "iexact",
                    value |-> cleaned_data["color"]]>>),
             {<<NonFieldErrors, "potential_match">>})
    ELSE CleanResult("ok", {})

FoundItemForm_clean(cleaned_data, lost) ==
    IF BaseItemForm_clean(cleaned_data)
    THEN CleanResult("ok", {<<NonFieldErrors, "contact_method_required">>})
    ELSE IF Truthy(cleaned_data, "item_name") /\ Truthy(cleaned_data, "color")
    THEN exists_error(
             QuerySet_filter(lost, LostItemFields,
                 <<[field |-> "item_name", lookup |-> "icontains",
                   value |-> cleaned_data["item_name"]],
                  [field |-> "color", lookup |-> "iexact",
                   value |-> cleaned_data["color"]],
                  [field |-> "status", lookup |-> "exact", value |-> "active"]>>),
             {})
    ELSE CleanResult("ok", {})

\* models.py : max_length of the CharFields, enforced by the model validation
\* of the ModelForm on the fields the form hands to the instance.
ModelMaxLength == 255
ModelFormFields == {"description", "color", "brand"}

post_clean(cleaned_data) ==
    {<<n, "max_length">> : n \in {m \in ModelFormFields \cap DOMAIN cleaned_data :
                                    Len(cleaned_data[m]) > ModelMaxLength}}

\* Form.is_valid() : the field cleaning, the form's clean(), the model
\* validation.  An exception other than ValidationError leaves clean().
FormResult(outcome, errors, cleaned_data) ==
    [outcome |-> outcome, errors |-> errors, cleaned_data |-> cleaned_data]

\* _clean_form : the clean() of the form's class.
clean_form(form, cleaned_data, lost, today) ==
    IF form = "lost" THEN LostItemForm_clean(cleaned_data, lost, today)
    ELSE FoundItemForm_clean(cleaned_data, lost)

\* The errors of the three steps together; a field the model validation
\* rejects leaves the cleaned data.
collect_errors(cf, errors, pc) ==
    FormResult(IF errors = {} THEN "valid" ELSE "invalid", errors,
               [n \in DOMAIN cf.cleaned_data \ {e[1] : e \in pc} |-> cf.cleaned_data[n]])

\* full_clean : _clean_fields, _clean_form, _post_clean.  Only
\* ValidationError is caught around clean().
full_clean(cf, fc, pc) ==
    IF fc.outcome = "FieldError"
    THEN FormResult("FieldError", cf.errors, cf.cleaned_data)
    ELSE collect_errors(cf, cf.errors \cup fc.errors \cup pc, pc)

bound_form(form, cf, lost, today) ==
    full_clean(cf, clean_form(form, cf.cleaned_data, lost, today),
               post_clean(cf.cleaned_data))

is_valid(form, data, lost, today) ==
    bound_form(form, cleaned_inputs[data], lost, today)

\* form.save(commit=False) : the model fields the form carries.
construct_instance(user, cleaned_data) ==
    ItemRow(user, cleaned_data["description"], cleaned_data["color"],
            cleaned_data["brand"], "", cleaned_data["image"])

(***************************************************************************)
(* views.py : the request handlers.                                        *)
(***************************************************************************)
Response(view, user, request, outcome, errors, context) ==
    [view |-> view, user |-> user, request |-> request, outcome |-> outcome,
     errors |-> errors, context |-> context]

NoResponse == Response("none", AnonymousUser, <<>>, "none", {}, <<>>)

\* request.user : a logged-in user or the anonymous user.
RequestUsers == DOMAIN users \cup {AnonymousUser}

username(u) == IF u = AnonymousUser THEN "" ELSE users[u].username

\* What a submission handler answers: the redirect after a save, the page
\* with the form's errors, or the exception that left is_valid().
HandlerOutcome(outcome) ==
    CASE outcome = "valid"   -> "redirect"
      [] outcome = "invalid" -> "form_errors"
      [] OTHER               -> "FieldError"

cleaned_get(cleaned_data, n) ==
    IF n \in DOMAIN cleaned_data THEN cleaned_data[n] ELSE ""

app_post_unchecked(u, data) ==
    \E form \in {is_valid("lost", data, lostItems, now)} :
        /\ u \in DOMAIN users
        /\ Len(lostItems) < MaxLost
        /\ lostItems' = Append(lostItems,
                ItemRow(u, cleaned_get(form.cleaned_data, "description"),
                        cleaned_get(form.cleaned_data, "color"),
                        cleaned_get(form.cleaned_data, "brand"), "", data.image))
        /\ response' = Response("app.post", u, data, HandlerOutcome(form.outcome),
                                form.errors, <<>>)
        /\ UNCHANGED <<users, foundItems, notifications, now, claimLog, inflight>>

\* app.post : the lost-item submission.
app_post(u, data) ==
    \E form \in {is_valid("lost", data, lostItems, now)} :
        /\ u \in DOMAIN users
        /\ form.outcome = "valid" => Len(lostItems) < MaxLost
        /\ lostItems' = IF form.outcome = "valid"
                        THEN Append(lostItems, construct_instance(u, form.cleaned_data))
                        ELSE lostItems
        /\ response' = Response("app.post", u, data, HandlerOutcome(form.outcome),
                                form.errors, <<>>)
        /\ UNCHANGED <<users, foundItems, notifications, now, claimLog, inflight>>

\* reportItem.post : the found-item submission.
reportItem_post(u, data) ==
    \E form \in {is_valid("found", data, lostItems, now)} :
        /\ u \in DOMAIN users
        /\ form.outcome = "valid" => Len(foundItems) < MaxFound
        /\ foundItems' = IF form.outcome = "valid"
                         THEN Append(foundItems, construct_instance(u, form.cleaned_data))
                         ELSE foundItems
        /\ response' = Response("reportItem.post", u, data, HandlerOutcome(form.outcome),
                                form.errors, <<>>)
        /\ UNCHANGED <<users, lostItems, notifications, now, claimLog, inflight>>

\* viewItems.get_context_data : all lost and all found reports.
viewItems(u) ==
    /\ u \in DOMAIN users
    /\ response' = Response("viewItems", u, <<>>, "rendered", {},
                            [lost_items |-> lostItems, found_items |-> foundItems])
    /\ UNCHANGED <<users, lostItems, foundItems, notifications, now, claimLog, inflight>>

Notifications_mark_read(u) ==
    /\ u \in DOMAIN users
    /\ response' = Response("Notifications", u, <<>>, "rendered", {},
                            {i \in DOMAIN notifications : notifications[i].to_user = u})
    /\ notifications' = [i \in DOMAIN notifications |->
                            IF notifications[i].to_user = u
                            THEN [notifications[i] EXCEPT !.is_read = TRUE]
                            ELSE notifications[i]]
    /\ UNCHANGED <<users, lostItems, foundItems, now, claimLog, inflight>>

Notifications_all(u) ==
    /\ u \in DOMAIN users
    /\ response' = Response("Notifications", u, <<>>, "rendered", {}, DOMAIN notifications)
    /\ UNCHANGED <<users, lostItems, foundItems, notifications, now, claimLog, inflight>>

\* Notifications.get_context_data : the notifications addressed to the user.
Notifications(u) ==
    /\ u \in DOMAIN users
    /\ response' = Response("Notifications", u, <<>>, "rendered", {},
                            {i \in DOMAIN notifications : notifications[i].to_user = u})
    /\ UNCHANGED <<users, lostItems, foundItems, notifications, now, claimLog, inflight>>

\* edit_profile : the profile form is valid when the username is given and
\* no other user carries it.
ProfileInputs ==
    {[username |-> "cat", phone_number |-> ""],
     [username |-> "", phone_number |-> ""]}

updateProfileForm_is_valid(u, fields) ==
    /\ fields.username # ""
    /\ \A v \in DOMAIN users \ {u} : users[v].username # fields.username

edit_profile(u, fields) ==
    /\ u \in DOMAIN users
    /\ IF updateProfileForm_is_valid(u, fields)
       THEN /\ users' = [users EXCEPT ![u] = fields]
            /\ response' = Response("edit_profile", u, fields, "redirect", {}, <<>>)
       ELSE /\ users' = users
            /\ response' = Response("edit_profile", u, fields, "form_errors",
                                    {<<"username", "invalid">>}, <<>>)
    /\ UNCHANGED <<lostItems, foundItems, notifications, now, claimLog, inflight>>

ClaimMessage_recipient(u, item) ==
    " " \o username(item.user) \o " has claimed the item you found : " \o item.description

\* claim_item : the message of the notification.
ClaimMessage(u, item) ==
    " " \o username(u) \o " has claimed the item you found : " \o item.description

claim_item_first(u, item_id) ==
    /\ u \in RequestUsers
    /\ IF lostItems = <<>>
       THEN /\ response' = Response("claim_item", u, item_id, "DoesNotExist", {}, <<>>)
            /\ UNCHANGED <<notifications, claimLog>>
       ELSE IF u = AnonymousUser
       THEN /\ response' = Response("claim_item", u, item_id, "ValueError", {}, <<>>)
            /\ UNCHANGED <<notifications, claimLog>>
       ELSE /\ Len(notifications) < MaxNotifications
            /\ notifications' = Append(notifications,
                    NotificationRow(lostItems[1].user, u, ClaimMessage(u, lostItems[1])))
            /\ claimLog' = Append(claimLog, [claimant |-> u, item_id |-> item_id])
            /\ response' = Response("claim_item", u, item_id, "redirect", {}, <<>>)
    /\ UNCHANGED <<users, lostItems, foundItems, now, inflight>>

claim_item_once(u, item_id) ==
    /\ u \in RequestUsers
    /\ IF item_id \notin DOMAIN lostItems
       THEN /\ response' = Response("claim_item", u, item_id, "DoesNotExist", {}, <<>>)
            /\ UNCHANGED <<notifications, claimLog>>
       ELSE IF u = AnonymousUser
       THEN /\ response' = Response("claim_item", u, item_id, "ValueError", {}, <<>>)
            /\ UNCHANGED <<notifications, claimLog>>
       ELSE /\ Len(notifications) < MaxNotifications
            /\ notifications' =
                  IF \E k \in DOMAIN claimLog : claimLog[k] = [claimant |-> u, item_id |-> item_id]
                  THEN notifications
                  ELSE Append(notifications,
                           NotificationRow(lostItems[item_id].user, u,
                                           ClaimMessage(u, lostItems[item_id])))
            /\ claimLog' = Append(claimLog, [claimant |-> u, item_id |-> item_id])
            /\ response' = Response("claim_item", u, item_id, "redirect", {}, <<>>)
    /\ UNCHANGED <<users, lostItems, foundItems, now, inflight>>

\* claim_item : LostItem.objects.get, Notification.objects.create,
\* messages.success.
claim_item(u, item_id) ==
    /\ u \in RequestUsers
    /\ IF item_id \notin DOMAIN lostItems
       THEN /\ response' = Response("claim_item", u, item_id, "DoesNotExist", {}, <<>>)
            /\ UNCHANGED <<notifications, claimLog>>
       ELSE IF u = AnonymousUser
       THEN /\ response' = Response("claim_item", u, item_id, "ValueError", {}, <<>>)
            /\ UNCHANGED <<notifications, claimLog>>
       ELSE /\ Len(notifications) < MaxNotifications
            /\ notifications' = Append(notifications,
                    NotificationRow(lostItems[item_id].user, u,
                                    ClaimMessage(u, lostItems[item_id])))
            /\ claimLog' = Append(claimLog, [claimant |-> u, item_id |-> item_id])
            /\ response' = Response("claim_item", u, item_id, "redirect", {}, <<>>)
    /\ UNCHANGED <<users, lostItems, foundItems, now, inflight>>

(***************************************************************************)
(* Persistence boundary: rows inserted through the model managers, the    *)
(* deletion of a user, the passage of time.                                *)
(***************************************************************************)
LostItem_create(u, d) ==
    /\ u \in DOMAIN users
    /\ Len(lostItems) < MaxLost
    /\ lostItems' = Append(lostItems, ItemRow(u, d, "Black", "", "Library", NoImage))
    /\ response' = Response("LostItem.create", u, <<>>, "created", {}, <<>>)
    /\ UNCHANGED <<users, foundItems, notifications, now, claimLog, inflight>>

FoundItem_create(u, d) ==
    /\ u \in DOMAIN users
    /\ Len(foundItems) < MaxFound
    /\ foundItems' = Append(foundItems, ItemRow(u, d, "Black", "", "Library", NoImage))
    /\ response' = Response("FoundItem.create", u, <<>>, "created", {}, <<>>)
    /\ UNCHANGED <<users, lostItems, notifications, now, claimLog, inflight>>

UserProfile_delete_cascade(u) ==
    /\ u \in DOMAIN users
    /\ users' = [v \in DOMAIN users \ {u} |-> users[v]]
    /\ lostItems' = SelectSeq(lostItems, LAMBDA r : r.user # u)
    /\ foundItems' = SelectSeq(foundItems, LAMBDA r : r.user # u)
    /\ notifications' = SelectSeq(notifications, LAMBDA r : r.to_user # u /\ r.from_user # u)
    /\ claimLog' = claimLog
    /\ response' = Response("UserProfile.delete", u, <<>>, "deleted", {}, <<>>)
    /\ now' = now
    /\ inflight' = inflight

\* on_delete=PROTECT : the deletion of a referenced user raises ProtectedError.
UserProfile_delete(u) ==
    /\ u \in DOMAIN users
    /\ IF IsProtected(u)
       THEN /\ users' = users
            /\ response' = Response("UserProfile.delete", u, <<>>, "ProtectedError", {}, <<>>)
       ELSE /\ users' = [v \in DOMAIN users \ {u} |-> users[v]]
            /\ response' = Response("UserProfile.delete", u, <<>>, "deleted", {}, <<>>)
    /\ UNCHANGED <<lostItems, foundItems, notifications, now, claimLog, inflight>>

\* auto_now_add reads the clock; a tick moves it past the duplicate window.
Tick ==
    /\ now + DuplicateWindowDays + 1 <= MaxNow
    /\ now' = now + DuplicateWindowDays + 1
    /\ response' = NoResponse
    /\ UNCHANGED <<users, lostItems, foundItems, notifications, claimLog, inflight>>

(***************************************************************************)
(* tests.py : a form bound to submitted data and validated on its own,     *)
(* form = LostItemForm(data=data); form.is_valid().  The response records  *)
(* what is_valid() ended in, form.errors and form.cleaned_data.            *)
(***************************************************************************)
LostItemForm_is_valid(data) ==
    \E form \in {is_valid("lost", data, lostItems, now)} :
        /\ response' = Response("LostItemForm", AnonymousUser, data, form.outcome,
                                form.errors, form.cleaned_data)
        /\ UNCHANGED <<users, lostItems, foundItems, notifications, now, claimLog, inflight>>

FoundItemForm_is_valid(data) ==
    \E form \in {is_valid("found", data, lostItems, now)} :
        /\ response' = Response("FoundItemForm", AnonymousUser, data, form.outcome,
                                form.errors, form.cleaned_data)
        /\ UNCHANGED <<users, lostItems, foundItems, notifications, now, claimLog, inflight>>

(***************************************************************************)
(* views.py : claim_item statement by statement, for requests served       *)
(* concurrently.  Each request in flight holds its position, the item it   *)
(* read and the id of the notification it inserted; the insert of one row  *)
(* is one step of the store.                                               *)
(***************************************************************************)
RequestIds == 1..MaxRequests

Idle == [pc |-> "idle", user |-> AnonymousUser, item_id |-> 0, item |-> <<>>, created |-> 0]

\* item = LostItem.objects.get(id=item_id)
claim_item_get(r, u, item_id) ==
    /\ inflight[r].pc = "idle"
    /\ u \in RequestUsers
    /\ IF item_id \notin DOMAIN lostItems
       THEN /\ inflight' = [inflight EXCEPT ![r] =
                               [Idle EXCEPT !.pc = "done", !.user = u, !.item_id = item_id]]
            /\ response' = Response("claim_item", u, item_id, "DoesNotExist", {}, <<>>)
       ELSE /\ inflight' = [inflight EXCEPT ![r] =
                               [Idle EXCEPT !.pc = "create", !.user = u, !.item_id = item_id,
                                            !.item = <<lostItems[item_id]>>]]
            /\ response' = response
    /\ UNCHANGED <<users, lostItems, foundItems, notifications, now, claimLog>>

claim_item_create_merged(r) ==
    /\ inflight[r].pc = "create"
    /\ IF inflight[r].user = AnonymousUser
       THEN /\ inflight' = [inflight EXCEPT ![r].pc = "done"]
            /\ response' = Response("claim_item", inflight[r].user, inflight[r].item_id,
                                    "ValueError", {}, <<>>)
            /\ notifications' = notifications
       ELSE /\ Len(notifications) < MaxNotifications
            /\ response' = response
            /\ \E n \in {NotificationRow(inflight[r].item[1].user, inflight[r].user,
                                         ClaimMessage(inflight[r].user, inflight[r].item[1]))} :
                  IF \E i \in DOMAIN notifications : notifications[i] = n
                  THEN /\ notifications' = notifications
                       /\ inflight' = [inflight EXCEPT ![r].pc = "success",
                                          ![r].created = CHOOSE i \in DOMAIN notifications :
                                                            notifications[i] = n]
                  ELSE /\ notifications' = Append(notifications, n)
                       /\ inflight' = [inflight EXCEPT ![r].pc = "success",
                                                       ![r].created = Len(notifications) + 1]
    /\ UNCHANGED <<users, lostItems, foundItems, now, claimLog>>

\* Notification.objects.create(to_user=item.user, from_user=request.user, ...)
claim_item_create(r) ==
    /\ inflight[r].pc = "create"
    /\ IF inflight[r].user = AnonymousUser
       THEN /\ inflight' = [inflight EXCEPT ![r].pc = "done"]
            /\ response' = Response("claim_item", inflight[r].user, inflight[r].item_id,
                                    "ValueError", {}, <<>>)
            /\ notifications' = notifications
       ELSE /\ Len(notifications) < MaxNotifications
            /\ notifications' = Append(notifications,
                    NotificationRow(inflight[r].item[1].user, inflight[r].user,
                                    ClaimMessage(inflight[r].user, inflight[r].item[1])))
            /\ inflight' = [inflight EXCEPT ![r].pc = "success",
                                            ![r].created = Len(notifications) + 1]
            /\ response' = response
    /\ UNCHANGED <<users, lostItems, foundItems, now, claimLog>>

\* messages.success(...); return redirect(...)
claim_item_redirect(r) ==
    /\ inflight[r].pc = "success"
    /\ inflight' = [inflight EXCEPT ![r].pc = "done"]
    /\ claimLog' = Append(claimLog, [claimant |-> inflight[r].user,
                                     item_id |-> inflight[r].item_id])
    /\ response' = Response("claim_item", inflight[r].user, inflight[r].item_id,
                            "redirect", {}, <<>>)
    /\ UNCHANGED <<users, lostItems, foundItems, notifications, now>>

Init ==
    /\ users = [u \in UserIds |-> [username |-> InitialUsernames[u], phone_number |-> ""]]
    /\ lostItems = <<>>
    /\ foundItems = <<>>
    /\ notifications = <<>>
    /\ now = 0
    /\ claimLog = <<>>
    /\ response = NoResponse
    /\ inflight = [r \in RequestIds |-> Idle]

Next ==
    \/ \E u \in UserIds, data \in SubmitInputs : app_post(u, data)
    \/ \E u \in UserIds, data \in SubmitInputs : reportItem_post(u, data)
    \/ \E u \in UserIds : viewItems(u)
    \/ \E u \in UserIds : Notifications(u)
    \/ \E u \in UserIds, fields \in ProfileInputs : edit_profile(u, fields)
    \/ \E u \in UserIds \cup {AnonymousUser}, i \in ItemIds : claim_item(u, i)
    \/ \E u \in UserIds, d \in Descriptions : LostItem_create(u, d)
    \/ \E u \in UserIds, d \in FoundDescriptions : FoundItem_create(u, d)
    \/ \E u \in UserIds : UserProfile_delete(u)

Spec == Init /\ [][Next]_vars

\* The same system with the clock running.
NextClock == Next \/ Tick

SpecClock == Init /\ [][NextClock]_vars

\* The forms validated for every input, over the stores of lost reports.
NextForms ==
    \/ \E data \in FormInputs : LostItemForm_is_valid(data)
    \/ \E data \in FormInputs : FoundItemForm_is_valid(data)
    \/ \E u \in UserIds, d \in Descriptions : LostItem_create(u, d)

SpecForms == Init /\ [][NextForms]_vars

\* The forms validated while time passes over the stored lost reports.
NextFormsClock == NextForms \/ Tick

SpecFormsClock == Init /\ [][NextFormsClock]_vars

\* Claim requests served concurrently, over the stores of lost reports.
NextClaims ==
    \/ \E r \in RequestIds, u \in UserIds \cup {AnonymousUser}, i \in ItemIds :
          claim_item_get(r, u, i)
    \/ \E r \in RequestIds : claim_item_create(r)
    \/ \E r \in RequestIds : claim_item_redirect(r)
    \/ \E u \in UserIds, d \in Descriptions : LostItem_create(u, d)

SpecClaims == Init /\ [][NextClaims]_vars
(***************************************************************************)
(* Properties of the claim / notification flow.                            *)
(***************************************************************************)
ClaimSucceeded == response'.view = "claim_item" /\ response'.outcome = "redirect"

\* The step appended exactly the row n to the notifications and touched no other.
AddedNotification(n) ==
    /\ Len(notifications') = Len(notifications) + 1
    /\ SubSeq(notifications', 1, Len(notifications)) = notifications
    /\ notifications'[Len(notifications')] = n

\* C1 (as stated): a successful claim adds exactly one unread notification
\* from the claimant to the owner of the report, whose message is
\* "<claimant-username> has claimed the item you found: <item-description>".
C1_AsStated ==
    [][ClaimSucceeded =>
        LET item == lostItems[response'.request]
            claimant == response'.user
        IN  AddedNotification(
                [to_user |-> item.user, from_user |-> claimant,
                 message |-> users[claimant].username
                             \o " has claimed the item you found: "
                             \o item.description,
                 time_created |-> now, is_read |-> FALSE])]_vars

\* C1 (amended): a successful claim adds exactly one unread notification from
\* the claimant to the owner of the report, whose message is
\* " <claimant-username> has claimed the item you found : <item-description>"
\* (a leading blank, and a blank before the colon); no other notification is
\* added or changed.
C1_ClaimCreatesNotification ==
    [][ClaimSucceeded =>
        LET item == lostItems[response'.request]
            claimant == response'.user
        IN  AddedNotification(
                [to_user |-> item.user, from_user |-> claimant,
                 message |-> " " \o users[claimant].username
                             \o " has claimed the item you found : "
                             \o item.description,
                 time_created |-> now, is_read |-> FALSE])]_vars

\* A renamed user has claimed the report of another user.
C1_Witness ==
    /\ response.view = "claim_item" /\ response.outcome = "redirect"
    /\ notifications # <<>>
    /\ notifications[Len(notifications)].from_user = response.user
    /\ notifications[Len(notifications)].to_user # response.user
    /\ users[response.user].username = "cat"
    /\ notifications[Len(notifications)].message
         = " cat has claimed the item you found : wallet"

\* C2: a claim whose item id resolves to no report ends in the not-found
\* error (LostItem.DoesNotExist), never in the success redirect, and leaves
\* the notifications as they were.
C2_MissingItemNotFound ==
    [][(response'.view = "claim_item" /\ response'.request \notin DOMAIN lostItems)
        => /\ response'.outcome = "DoesNotExist"
           /\ notifications' = notifications
           /\ claimLog' = claimLog]_vars

\* A claim for a missing id was answered while notifications exist.
C2_Witness ==
    /\ response.view = "claim_item" /\ response.outcome = "DoesNotExist"
    /\ response.request \notin DOMAIN lostItems
    /\ notifications # <<>>

\* C3 (as stated): the recipient and the sender of every notification are
\* two distinct existing users.
C3_AsStated ==
    \A i \in DOMAIN notifications :
        /\ notifications[i].to_user \in DOMAIN users
        /\ notifications[i].from_user \in DOMAIN users
        /\ notifications[i].to_user # notifications[i].from_user

\* C4: there is no idempotency guard: the notifications are, one for one and
\* in order, the successful claims performed so far, so n successful claims
\* of one claimant against one item leave n notifications for that pair.
C4_OneNotificationPerClaim ==
    /\ Len(notifications) = Len(claimLog)
    /\ \A k \in DOMAIN claimLog :
          /\ notifications[k].from_user = claimLog[k].claimant
          /\ notifications[k].to_user = lostItems[claimLog[k].item_id].user
    /\ \A c \in UserIds, i \in ItemIds :
          Cardinality({k \in DOMAIN notifications :
                          /\ claimLog[k] = [claimant |-> c, item_id |-> i]
                          /\ notifications[k].from_user = c})
            = Cardinality({k \in DOMAIN claimLog :
                              claimLog[k] = [claimant |-> c, item_id |-> i]})

\* The same claimant has claimed the same item twice.
C4_Witness ==
    /\ Len(claimLog) >= 2
    /\ claimLog[1] = claimLog[2]
    /\ Len(notifications) >= 2
    /\ notifications[1].from_user = notifications[2].from_user

\* C5: only claim_item changes the notifications (the submissions, the item
\* list, the notifications view, the profile edit and the persistence
\* operations leave them as they are), and every notification is unread.
C5_OnlyClaimsNotify ==
    [][/\ notifications' # notifications => response'.view = "claim_item"
       /\ \A i \in DOMAIN notifications' : ~notifications'[i].is_read]_vars

\* The recipient has viewed a notification, which is still unread.
C5_Witness ==
    /\ response.view = "Notifications"
    /\ response.context # {}
    /\ \A i \in response.context : ~notifications[i].is_read
(***************************************************************************)
(* Properties of the submissions and of the persistence boundary.          *)
(***************************************************************************)
AllFieldsValid(data) == cleaned_inputs[data].errors = {}

\* A stored lost report of the last 7 days whose text contains the submitted
\* name and whose location contains the submitted location, case-insensitively.
SimilarRecent(data) ==
    \E i \in DOMAIN lostItems :
        /\ icontains(lostItems[i].description, cleaned_inputs[data].cleaned_data["item_name"])
        /\ icontains(lostItems[i].last_known_location,
                     cleaned_inputs[data].cleaned_data["location"])
        /\ lostItems[i].time_created >= now - DuplicateWindowDays

\* C6 (as stated): a lost-item submission whose fields are all valid, made
\* while a similar lost report of the last 7 days is stored, is accepted: the
\* report is stored and only a warning is attached.
C6_AsStated ==
    [][(/\ response'.view = "app.post"
        /\ AllFieldsValid(response'.request)
        /\ SimilarRecent(response'.request))
        => /\ response'.outcome = "redirect"
           /\ Len(lostItems') = Len(lostItems) + 1]_vars

\* C7: the found-item submission reads the lost reports and writes none: it
\* leaves users, lost reports, notifications and the stored found reports as
\* they are, and its outcome and errors are those it has on an empty store.
C7_FoundValidationReadOnly ==
    [][response'.view = "reportItem.post" =>
        LET alone == is_valid("found", response'.request, <<>>, now)
        IN  /\ lostItems' = lostItems
            /\ notifications' = notifications
            /\ users' = users
            /\ SubSeq(foundItems', 1, Len(foundItems)) = foundItems
            /\ response'.errors = alone.errors
            /\ (response'.outcome = "redirect") = (alone.outcome = "valid")
            /\ (response'.outcome = "form_errors") = (alone.outcome = "invalid")]_vars

\* A found item was submitted while a lost report of that name and colour is stored.
C7_Witness ==
    /\ response.view = "reportItem.post"
    /\ AllFieldsValid(response.request)
    /\ \E i \in DOMAIN lostItems :
          /\ icontains(lostItems[i].description, response.request.item_name)
          /\ lower(lostItems[i].color) = lower(response.request.color)

\* The step appended one row to the table and changed none of its rows.
AddedOne(before, after) ==
    Len(after) = Len(before) + 1 /\ SubSeq(after, 1, Len(before)) = before

\* C8: a submission that passes validation adds exactly one report of its
\* variant; one that does not pass adds no report and changes none.
C8_SubmitAllOrNothing ==
    [][/\ response'.view = "app.post" =>
            /\ foundItems' = foundItems
            /\ (response'.outcome = "redirect")
                 = (is_valid("lost", response'.request, lostItems, now).outcome = "valid")
            /\ IF response'.outcome = "redirect"
               THEN AddedOne(lostItems, lostItems')
               ELSE lostItems' = lostItems
       /\ response'.view = "reportItem.post" =>
            /\ lostItems' = lostItems
            /\ (response'.outcome = "redirect")
                 = (is_valid("found", response'.request, lostItems, now).outcome = "valid")
            /\ IF response'.outcome = "redirect"
               THEN AddedOne(foundItems, foundItems')
               ELSE foundItems' = foundItems]_vars

\* A lost-item submission has failed validation while reports are stored.
C8_Witness ==
    /\ response.view = "app.post"
    /\ response.outcome = "form_errors"
    /\ response.errors # {}
    /\ lostItems # <<>>
    /\ foundItems # <<>>

OwnersKept(before, after, creators) ==
    /\ Len(after) >= Len(before)
    /\ \A i \in DOMAIN after :
          /\ after[i].user \in DOMAIN users'
          /\ i \in DOMAIN before => after[i].user = before[i].user
          /\ i \notin DOMAIN before =>
                after[i].user = response'.user /\ response'.view \in creators

\* C9: every report has one owner, an existing user, the user who filed it,
\* and the owner of a stored report never changes.
C9_ReportOwner ==
    [][/\ OwnersKept(lostItems, lostItems', {"app.post", "LostItem.create"})
       /\ OwnersKept(foundItems, foundItems', {"reportItem.post", "FoundItem.create"})]_vars

\* A user without reports was deleted while the reports of the other user stay.
C9_Witness ==
    /\ response.view = "UserProfile.delete" /\ response.outcome = "deleted"
    /\ lostItems # <<>> /\ foundItems # <<>>
    /\ lostItems[1].user \in DOMAIN users
    /\ foundItems[1].user \in DOMAIN users

OwnsReport(u) ==
    \/ \E i \in DOMAIN lostItems : lostItems[i].user = u
    \/ \E i \in DOMAIN foundItems : foundItems[i].user = u

\* C10: the deletion of a user who owns a lost or found report is rejected
\* (ProtectedError) and leaves users, reports and notifications as they are.
C10_DeleteOwnerRejected ==
    [][(response'.view = "UserProfile.delete" /\ OwnsReport(response'.user))
        => /\ response'.outcome = "ProtectedError"
           /\ UNCHANGED <<users, lostItems, foundItems, notifications>>]_vars

\* The deletion of a user referenced by a report only was rejected.
C10_Witness ==
    /\ response.view = "UserProfile.delete" /\ response.outcome = "ProtectedError"
    /\ OwnsReport(response.user)
    /\ \A i \in DOMAIN notifications :
          notifications[i].to_user # response.user /\ notifications[i].from_user # response.user

(***************************************************************************)
(* The validation rules of the forms (SpecForms).                          *)
(***************************************************************************)
FormChecked == response.view \in {"LostItemForm", "FoundItemForm"}

\* The fields an error is reported on.
ErrorFields(errors) == {e[1] : e \in errors} \ {NonFieldErrors}

\* No field other than those of the set violates a rule of its own.
OthersValid(data, fields) == ErrorFields(cleaned_inputs[data].errors) \subseteq fields

\* C11 (as stated): validation reports an error on item_name when the trimmed
\* name has fewer than 3 characters, and passes (the form is valid) when the
\* trimmed name has 3 or more characters and no other field violates a rule.
C11_AsStated ==
    FormChecked =>
        /\ Len(strip(response.request.item_name)) < 3
             => "item_name" \in ErrorFields(response.errors)
        /\ (/\ Len(strip(response.request.item_name)) >= 3
            /\ OthersValid(response.request, {}))
             => response.outcome = "valid"

\* C12 (as stated): a submission whose other fields are valid is valid
\* exactly when the trimmed description has 10 to 1000 characters, and
\* otherwise reports an error on the description field.
C12_AsStated ==
    (FormChecked /\ OthersValid(response.request, {"description"})) =>
        /\ response.outcome = "valid"
             <=> Len(strip(response.request.description)) \in 10..1000
        /\ Len(strip(response.request.description)) \notin 10..1000
             => "description" \in ErrorFields(response.errors)

\* The phone with its spaces and dashes removed.
StrippedPhone(phone) == remove(remove(phone, " "), "-")

\* C13 (as stated): spaces and dashes are removed from the contact phone
\* before the pattern is applied: a phone written with spaces or dashes whose
\* stripped form matches the pattern gets no error on contact_phone and its
\* cleaned value is the stripped form.
C13_AsStated ==
    (/\ FormChecked
     /\ StrippedPhone(response.request.contact_phone) # response.request.contact_phone
     /\ phone_regex(StrippedPhone(response.request.contact_phone))) =>
        /\ "contact_phone" \notin ErrorFields(response.errors)
        /\ "contact_phone" \in DOMAIN response.context
        /\ response.context["contact_phone"] = StrippedPhone(response.request.contact_phone)

\* C14 (as stated): a contact phone without spaces and dashes is accepted (no
\* error on contact_phone) exactly when it matches the pattern: an optional
\* "+", an optional "1", 9 to 15 digits.
C14_AsStated ==
    (/\ FormChecked
     /\ StrippedPhone(response.request.contact_phone) = response.request.contact_phone) =>
        ("contact_phone" \notin ErrorFields(response.errors)
            <=> phone_regex(response.request.contact_phone))

\* C15 (as stated): a syntactically valid contact email is cleaned to its
\* lowercased, trimmed form and the form (its other fields being valid) is
\* valid; normalising the cleaned email again returns it unchanged.
C15_AsStated ==
    (/\ FormChecked
     /\ validate_email(strip(response.request.contact_email))
     /\ OthersValid(response.request, {})) =>
        /\ response.outcome = "valid"
        /\ response.context["contact_email"] = strip(lower(response.request.contact_email))
        /\ clean_contact_email(response.context["contact_email"]).value
             = response.context["contact_email"]

AllowedImageTypes == {"image/jpeg", "image/png", "image/gif"}

\* C16 (as stated): an image larger than 5 MB, or of a type outside jpeg, png
\* and gif, gets an error on the image field; an image of at most 5 MB and of
\* an allowed type gets none; a submission with no image (its other fields
\* being valid) is accepted.
C16_AsStated ==
    FormChecked =>
        /\ (/\ response.request.image.present
            /\ \/ response.request.image.size > 5 * 1024 * 1024
               \/ response.request.image.content_type \notin AllowedImageTypes)
             => "image" \in ErrorFields(response.errors)
        /\ (/\ response.request.image.present
            /\ response.request.image.size <= 5 * 1024 * 1024
            /\ response.request.image.content_type \in AllowedImageTypes)
             => "image" \notin ErrorFields(response.errors)
        /\ (~response.request.image.present /\ OthersValid(response.request, {}))
             => response.outcome = "valid"

RequiredFields == {"item_name", "color", "item_type", "description", "location",
                   "contact_name", "contact_email", "contact_phone"}

\* C17 (as stated): with one required field empty and the others valid the
\* submission is invalid with an error on exactly that field; with brand
\* empty and no image it is valid.
C17_AsStated ==
    FormChecked =>
        /\ \A n \in RequiredFields :
              response.request = [valid_data EXCEPT ![n] = ""]
                => /\ response.outcome = "invalid"
                   /\ ErrorFields(response.errors) = {n}
        /\ response.request = [valid_data EXCEPT !.brand = ""]
             => response.outcome = "valid"

ContactMethodRequired == <<NonFieldErrors, "contact_method_required">>

\* C18 (as stated): for no input does validation produce the form-level
\* error "At least one contact method (email or phone) is required".
C18_AsStated ==
    FormChecked => ContactMethodRequired \notin response.errors

\* C18 (amended): validation produces the form-level error "At least one
\* contact method (email or phone) is required" exactly when neither the
\* contact email nor the contact phone passes its own field validation, so
\* always next to an error on contact_email and an error on contact_phone.
C18_ContactMethodWithFieldErrors ==
    FormChecked =>
        (ContactMethodRequired \in response.errors
            <=> {"contact_email", "contact_phone"} \subseteq ErrorFields(response.errors))

\* The form-level error was produced for an input whose email and phone are
\* both given, and both malformed.
C18_Witness ==
    /\ FormChecked
    /\ response.request.contact_email = "invalid-email"
    /\ response.request.contact_phone = "123"
    /\ response.outcome = "invalid"
    /\ ContactMethodRequired \in response.errors
    /\ {<<"contact_email", "invalid">>, <<"contact_phone", "invalid">>} \subseteq response.errors

\* C19 (as stated): validation ends in a validated record or in a set of
\* error reasons, never in a raised exception.
C19_AsStated ==
    FormChecked => response.outcome \in {"valid", "invalid"}

\* C20 (as stated): the lost and the found validation of the same input end
\* alike, report an error on the same fields and produce the same cleaned
\* values.
C20_AsStated ==
    FormChecked =>
        \A form \in {"lost", "found"} :
            /\ is_valid(form, response.request, lostItems, now).outcome = response.outcome
            /\ ErrorFields(is_valid(form, response.request, lostItems, now).errors)
                 = ErrorFields(response.errors)
            /\ is_valid(form, response.request, lostItems, now).cleaned_data = response.context

(***************************************************************************)
(* The found-item submission end to end (Spec).                            *)
(***************************************************************************)
\* C21 (as stated): a found-item submission with all fields valid and no
\* image is answered by the redirect and adds one found report that holds the
\* supplied color, brand, description and location.
C21_AsStated ==
    [][(/\ response'.view = "reportItem.post"
        /\ AllFieldsValid(response'.request)
        /\ ~response'.request.image.present)
        => /\ response'.outcome = "redirect"
           /\ AddedOne(foundItems, foundItems')
           /\ foundItems'[Len(foundItems')].color = response'.request.color
           /\ foundItems'[Len(foundItems')].brand = response'.request.brand
           /\ foundItems'[Len(foundItems')].description = response'.request.description
           /\ foundItems'[Len(foundItems')].last_known_location
                = response'.request.location]_vars

(***************************************************************************)
(* Concurrent claims (SpecClaims).                                         *)
(***************************************************************************)
\* The requests that have inserted their notification.
Inserted == {r \in RequestIds : inflight[r].created # 0}

\* C22: whatever the interleaving of the claim requests, every request of a
\* user that read an existing item succeeds, the notifications of the store
\* are exactly those the requests inserted, one per request, each from its
\* request's claimant to the owner of the item it read; none is lost, merged
\* or inserted twice.
C22_ConcurrentClaimsIndependent ==
    /\ Len(notifications) = Cardinality(Inserted)
    /\ \A r \in Inserted :
          /\ inflight[r].created \in DOMAIN notifications
          /\ notifications[inflight[r].created].from_user = inflight[r].user
          /\ notifications[inflight[r].created].to_user = inflight[r].item[1].user
          /\ ~notifications[inflight[r].created].is_read
    /\ \A r1, r2 \in Inserted :
          r1 # r2 => inflight[r1].created # inflight[r2].created
    /\ \A r \in RequestIds :
          (/\ inflight[r].pc \in {"success", "done"}
           /\ inflight[r].item # <<>>
           /\ inflight[r].user # AnonymousUser) => r \in Inserted
    /\ Len(claimLog) = Cardinality({r \in Inserted : inflight[r].pc = "done"})

\* Every request claimed the same item for the same user and has ended; the
\* request that inserted first is not the first request.
C22_Witness ==
    /\ \A r \in RequestIds :
          /\ inflight[r].pc = "done"
          /\ inflight[r].user = 1 /\ inflight[r].item_id = 1
          /\ inflight[r].created # 0
    /\ inflight[1].created = 2
    /\ Len(notifications) = MaxRequests
    /\ notifications[1] = notifications[2]

(***************************************************************************)
(* The duplicate warning of the lost-item form (SpecFormsClock).           *)
(***************************************************************************)
DuplicateWarning == <<NonFieldErrors, "duplicate_warning">>

\* C23 (as stated): the lost-item validation of an input whose fields are
\* valid attaches the duplicate warning exactly when the store holds a lost
\* report of the last 7 days whose name contains the submitted name and
\* whose location contains the submitted location, case-insensitively.
C23_AsStated ==
    (/\ response.view = "LostItemForm"
     /\ OthersValid(response.request, {})) =>
        (DuplicateWarning \in response.errors <=> SimilarRecent(response.request))

(***************************************************************************)
(* The notifications view (Spec).                                          *)
(***************************************************************************)
\* C24: the notifications view of a user returns exactly the notifications
\* whose recipient is that user, and leaves users, reports and notifications
\* as they are.
C24_NotificationsIsolated ==
    [][response'.view = "Notifications" =>
        /\ response'.context = {i \in DOMAIN notifications :
                                  notifications[i].to_user = response'.user}
        /\ \A i \in DOMAIN notifications \ response'.context :
              notifications[i].to_user # response'.user
        /\ UNCHANGED <<users, lostItems, foundItems, notifications, claimLog>>]_vars

\* A user viewed their notifications and got none, while the store holds
\* notifications addressed to the other user, one of them sent by the viewer.
C24_Witness ==
    /\ response.view = "Notifications"
    /\ response.context = {}
    /\ Len(notifications) = 2
    /\ \A i \in DOMAIN notifications : notifications[i].to_user # response.user
    /\ \E i \in DOMAIN notifications : notifications[i].from_user = response.user
====
